---- MODULE Spec2Model ----
(***************************************************************************)
(* Model of src/app.py, the Streamlit sentiment dashboard.                 *)
(*                                                                         *)
(* A text is a sequence of characters; a character is a one-element name   *)
(* ("a", " ", "\t") or, for the non-ASCII ones, its code point ("U+00E9"). *)
(* Two specifications are given:                                           *)
(*   SpecText  one row's text through clean_text and get_sentiment, the    *)
(*             inputs drawn from every text of up to MaxTokens tokens;     *)
(*   Spec      the script as Streamlit runs it: one full, synchronous run  *)
(*             per user interaction (upload, filter selection, download).  *)
(***************************************************************************)
EXTENDS Integers, Sequences, FiniteSets, TLC

VARIABLES
    \* ---- one row through the two row functions (SpecText)
    Combined_Text,      \* the argument of clean_text
    Cleaned_Text,       \* its result
    Sentiment,          \* the result of get_sentiment on Cleaned_Text
    applied,            \* which of the two functions have been applied
    \* ---- the script (Spec)
    uploaded_file,      \* st.file_uploader's value: NoFile or the file
    page                \* what the last run of the script left on the page:
                        \*   status            how the run ended
                        \*   shown_error       the error box, or "none"
                        \*   df                the table of the run
                        \*   metrics           total, pos, neg, neu and the cards
                        \*   charts            the bars and slices drawn
                        \*   filtered_df       the table st.dataframe shows
                        \*   csv               the data of the download button
                        \*   sentiment_choice  st.selectbox's value

textvars == <<Combined_Text, Cleaned_Text, Sentiment, applied>>
appvars  == <<uploaded_file, page>>
vars     == <<Combined_Text, Cleaned_Text, Sentiment, applied,
              uploaded_file, page>>

(***************************************************************************)
(* Bounds                                                                  *)
(***************************************************************************)
MaxTokens == 3      \* tokens in a text of SpecText
MaxRows == 2        \* data rows of an uploaded table

(***************************************************************************)
(* Characters and the classes the regular expressions use                  *)
(***************************************************************************)
ascii_lowercase ==
    <<"a","b","c","d","e","f","g","h","i","j","k","l","m",
      "n","o","p","q","r","s","t","u","v","w","x","y","z">>
ascii_uppercase ==
    <<"A","B","C","D","E","F","G","H","I","J","K","L","M",
      "N","O","P","Q","R","S","T","U","V","W","X","Y","Z">>
Digits == {"0","1","2","3","4","5","6","7","8","9"}

Range(s) == {s[i] : i \in 1..Len(s)}

\* A sequence given element by element, as an explicit tuple
AsSeq(f) == f \o <<>>

\* The element of a one-element set.  Only({e(x) : x \in {v}}) is e(v) with
\* v evaluated once, the way a local variable of the script holds a value.
Only(S) == CHOOSE r \in S : TRUE

Lowercase == Range(ascii_lowercase)
Uppercase == Range(ascii_uppercase)

\* [a-z]
IsAZ(c) == c \in Lowercase

\* \s on a str pattern: the Unicode whitespace characters
Whitespace == {" ", "\t", "\n", "\r", "\f", "U+000B", "U+00A0", "U+3000"}
IsSpace(c) == c \in Whitespace

\* \w on a str pattern: Unicode alphanumerics and the underscore.  U+0307
\* (combining dot above) is a mark, not a word character.
NonAsciiLetters == {"U+00E9", "U+00C9", "U+0130"}
WordChars == Lowercase \cup Uppercase \cup Digits \cup {"_"} \cup NonAsciiLetters
IsWord(c) == c \in WordChars

IndexOf(s, c) == CHOOSE i \in 1..Len(s) : s[i] = c

\* str.lower() of one character.  It is not always one character:
\* U+0130 (I with dot above) lower-cases to "i" followed by U+0307.
LowerChar(c) ==
    IF c \in Uppercase THEN <<ascii_lowercase[IndexOf(ascii_uppercase, c)]>>
    ELSE IF c = "U+00C9" THEN <<"U+00E9">>
    ELSE IF c = "U+0130" THEN <<"i", "U+0307">>
    ELSE <<c>>

RECURSIVE lower(_)
lower(s) == IF s = <<>> THEN <<>> ELSE LowerChar(Head(s)) \o lower(Tail(s))

(***************************************************************************)
(* re.sub: leftmost, non-overlapping, greedy matches, scanned left to      *)
(* right.  Each Match operator gives the length of the match that starts   *)
(* at position i, 0 when the pattern does not match there.                 *)
(***************************************************************************)
StartsWith(s, i, p) ==
    /\ i + Len(p) - 1 <= Len(s)
    /\ \A k \in 1..Len(p) : s[i + k - 1] = p[k]

\* \S+ from position i: the length of the run of non-whitespace characters
RECURSIVE NonSpaceRun(_, _)
NonSpaceRun(s, i) ==
    IF i > Len(s) \/ IsSpace(s[i]) THEN 0 ELSE 1 + NonSpaceRun(s, i + 1)

\* \w+ from position i
RECURSIVE WordRun(_, _)
WordRun(s, i) ==
    IF i > Len(s) \/ ~IsWord(s[i]) THEN 0 ELSE 1 + WordRun(s, i + 1)

\* \s+ from position i
RECURSIVE SpaceRun(_, _)
SpaceRun(s, i) ==
    IF i > Len(s) \/ ~IsSpace(s[i]) THEN 0 ELSE 1 + SpaceRun(s, i + 1)

\* http\S+|www\S+
MatchLink(s, i) ==
    IF StartsWith(s, i, <<"h","t","t","p">>) /\ NonSpaceRun(s, i + 4) > 0
        THEN 4 + NonSpaceRun(s, i + 4)
    ELSE IF StartsWith(s, i, <<"w","w","w">>) /\ NonSpaceRun(s, i + 3) > 0
        THEN 3 + NonSpaceRun(s, i + 3)
    ELSE 0

\* @\w+
MatchMention(s, i) ==
    IF s[i] = "@" /\ WordRun(s, i + 1) > 0 THEN 1 + WordRun(s, i + 1) ELSE 0

\* #\w+
MatchHashtag(s, i) ==
    IF s[i] = "#" /\ WordRun(s, i + 1) > 0 THEN 1 + WordRun(s, i + 1) ELSE 0

\* re.sub(r"http\S+|www\S+", "", text)
RECURSIVE SubLinks(_, _)
SubLinks(s, i) ==
    IF i > Len(s) THEN <<>>
    ELSE IF MatchLink(s, i) > 0 THEN SubLinks(s, i + MatchLink(s, i))
    ELSE <<s[i]>> \o SubLinks(s, i + 1)
sub_links(s) == SubLinks(s, 1)

\* re.sub(r"@\w+", "", text)
RECURSIVE SubMentions(_, _)
SubMentions(s, i) ==
    IF i > Len(s) THEN <<>>
    ELSE IF MatchMention(s, i) > 0 THEN SubMentions(s, i + MatchMention(s, i))
    ELSE <<s[i]>> \o SubMentions(s, i + 1)
sub_mentions(s) == SubMentions(s, 1)

\* As sub_hashtags, with the pattern "#": the sign goes, the word stays
sub_hashtag_signs(s) == SelectSeq(s, LAMBDA c : c # "#")

\* re.sub(r"#\w+", "", text)
RECURSIVE SubHashtags(_, _)
SubHashtags(s, i) ==
    IF i > Len(s) THEN <<>>
    ELSE IF MatchHashtag(s, i) > 0 THEN SubHashtags(s, i + MatchHashtag(s, i))
    ELSE <<s[i]>> \o SubHashtags(s, i + 1)
sub_hashtags(s) == SubHashtags(s, 1)

\* As sub_nonletters, with the pattern [^a-z0-9\s]: the digits stay
sub_nonletters_keeps_digits(s) ==
    SelectSeq(s, LAMBDA c : IsAZ(c) \/ c \in Digits \/ IsSpace(c))

\* re.sub(r"[^a-z\s]", "", text)
sub_nonletters(s) == SelectSeq(s, LAMBDA c : IsAZ(c) \/ IsSpace(c))

\* re.sub(r"\s+", " ", text)
RECURSIVE SubSpaces(_, _)
SubSpaces(s, i) ==
    IF i > Len(s) THEN <<>>
    ELSE IF SpaceRun(s, i) > 0 THEN <<" ">> \o SubSpaces(s, i + SpaceRun(s, i))
    ELSE <<s[i]>> \o SubSpaces(s, i + 1)
sub_spaces(s) == SubSpaces(s, 1)

\* str.strip(): drops the leading and the trailing whitespace
RECURSIVE lstrip(_)
lstrip(s) == IF s # <<>> /\ IsSpace(Head(s)) THEN lstrip(Tail(s)) ELSE s
RECURSIVE rstrip(_)
rstrip(s) ==
    IF s # <<>> /\ IsSpace(s[Len(s)]) THEN rstrip(SubSeq(s, 1, Len(s) - 1)) ELSE s
strip(s) == lstrip(rstrip(s))

(***************************************************************************)
(* clean_text (lines 47-54) and get_sentiment (lines 61-68)                *)
(***************************************************************************)
\* As clean_text, without line 50
clean_text_without_mentions(text) ==
    LET t1 == lower(text)
        t2 == sub_links(t1)
        t4 == sub_hashtags(t2)
        t5 == sub_nonletters(t4)
    IN  strip(sub_spaces(t5))

clean_text(text) ==
    LET t1 == lower(text)           \* line 48
        t2 == sub_links(t1)         \* line 49
        t3 == sub_mentions(t2)      \* line 50
        t4 == sub_hashtags(t3)      \* line 51
        t5 == sub_nonletters(t4)    \* line 52
    IN  strip(sub_spaces(t5))       \* line 53

\* str.split(" ") of a cleaned text: its words
RECURSIVE Words(_, _)
Words(s, acc) ==
    IF s = <<>> THEN (IF acc = <<>> THEN <<>> ELSE <<acc>>)
    ELSE IF Head(s) = " "
        THEN (IF acc = <<>> THEN <<>> ELSE <<acc>>) \o Words(Tail(s), <<>>)
    ELSE Words(Tail(s), Append(acc, Head(s)))

\* The external scorer, TextBlob(text).sentiment.polarity, as a stub behind
\* the interface text -> signed score, in hundredths (-100..100).  Like the
\* library it averages the scores of the words its lexicon knows and gives
\* 0.0 when it knows none; the lexicon is cut down to two entries.
WordPolarity(w) ==
    IF w = <<"g","r","e","a","t">> THEN 80
    ELSE IF w = <<"b","a","d">> THEN -70
    ELSE 0

RECURSIVE SumSeq(_)
SumSeq(s) == IF s = <<>> THEN 0 ELSE Head(s) + SumSeq(Tail(s))

polarity(text) ==
    LET ws     == Words(text, <<>>)
        scores == SelectSeq(AsSeq([i \in 1..Len(ws) |-> WordPolarity(ws[i])]),
                            LAMBDA x : x # 0)
    IN  IF scores = <<>> THEN 0
        ELSE IF SumSeq(scores) >= 0 THEN SumSeq(scores) \div Len(scores)
        ELSE -((-SumSeq(scores)) \div Len(scores))

\* The labels and the selectbox's first option, as texts
Positive == <<"P","o","s","i","t","i","v","e">>
Negative == <<"N","e","g","a","t","i","v","e">>
Neutral  == <<"N","e","u","t","r","a","l">>
All      == <<"A","l","l">>
Labels   == {Positive, Neutral, Negative}

\* As get_sentiment, with polarity >= 0 at line 63
get_sentiment_nonstrict(text) ==
    Only({ IF score >= 0 THEN Positive
           ELSE IF score < 0 THEN Negative
           ELSE Neutral : score \in {polarity(text)} })

\* As get_sentiment, with the label of line 68 misspelt
get_sentiment_misspelt(text) ==
    Only({ IF score > 0 THEN Positive
           ELSE IF score < 0 THEN Negative
           ELSE <<"N","e","t","u","r","a","l">> : score \in {polarity(text)} })

get_sentiment(text) ==
    Only({ IF score > 0 THEN Positive               \* lines 63-64
           ELSE IF score < 0 THEN Negative          \* lines 65-66
           ELSE Neutral                             \* lines 67-68
           : score \in {polarity(text)} })          \* line 62

(***************************************************************************)
(* The texts SpecText feeds to clean_text: every concatenation of up to    *)
(* MaxTokens tokens, and the two texts of the documented example.          *)
(***************************************************************************)
Tokens ==
    { <<"h","t","t","p">>, <<"H","T","T","P">>, <<"w","w","w">>, <<"W","W","W">>,
      <<"@">>, <<"#">>, <<"a">>, <<"B">>, <<"_">>, <<"7">>, <<"!">>,
      <<" ">>, <<"\t">>, <<"U+00E9">>, <<"U+0130">>, <<"n","a","n">> }

RECURSIVE TokenTexts(_)
TokenTexts(n) ==
    IF n = 0 THEN {<<>>}
    ELSE LET shorter == TokenTexts(n - 1)
         IN  shorter \cup {t \o k : t \in shorter, k \in Tokens}

\* "Check this out http://x.co #great @bob!!!"
ExampleText ==
    <<"C","h","e","c","k"," ","t","h","i","s"," ","o","u","t"," ",
      "h","t","t","p",":","/","/","x",".","c","o"," ",
      "#","g","r","e","a","t"," ","@","b","o","b","!","!","!">>

\* "check this out great"
ExampleWithHashtagWord ==
    <<"c","h","e","c","k"," ","t","h","i","s"," ","o","u","t"," ",
      "g","r","e","a","t">>

\* "check this out"
ExampleCleaned ==
    <<"c","h","e","c","k"," ","t","h","i","s"," ","o","u","t">>

Texts == TokenTexts(MaxTokens) \cup {ExampleText, ExampleWithHashtagWord}

(***************************************************************************)
(* Tables.  A cell is a string, a number or NaN (a missing value); a table *)
(* has its column names, one dtype per column and its rows.                *)
(***************************************************************************)
Str(s) == [kind |-> "str", val |-> s]
Num(d) == [kind |-> "num", val |-> d]      \* d: the digits of a whole number
NaN    == [kind |-> "nan", val |-> <<>>]

NoFile  == [kind |-> "none"]
NoTable == [columns |-> <<>>, dtypes |-> <<>>, data |-> <<>>]

\* The strings pd.read_csv reads as a missing value (its default na_values;
\* the empty field is one of them)
NAValues ==
    { <<>>,
      <<"#","N","/","A">>,
      <<"#","N","/","A"," ","N","/","A">>,
      <<"#","N","A">>,
      <<"-","1",".","#","I","N","D">>,
      <<"-","1",".","#","Q","N","A","N">>,
      <<"-","N","a","N">>,
      <<"-","n","a","n">>,
      <<"1",".","#","I","N","D">>,
      <<"1",".","#","Q","N","A","N">>,
      <<"<","N","A",">">>,
      <<"N","/","A">>,
      <<"N","A">>,
      <<"N","U","L","L">>,
      <<"N","a","N">>,
      <<"N","o","n","e">>,
      <<"n","/","a">>,
      <<"n","a","n">>,
      <<"n","u","l","l">> }

\* A field pd.read_csv reads as a number: digits, or digits followed by ".0"
\* (what to_csv writes for a whole number of a float64 column)
AllDigits(f) == f # <<>> /\ \A i \in 1..Len(f) : f[i] \in Digits
IsNumeric(f) ==
    \/ AllDigits(f)
    \/ /\ Len(f) > 2
       /\ SubSeq(f, Len(f) - 1, Len(f)) = <<".", "0">>
       /\ AllDigits(SubSeq(f, 1, Len(f) - 2))

\* The value of a numeric field: its whole part without leading zeros
RECURSIVE DropZeros(_)
DropZeros(d) == IF Len(d) > 1 /\ Head(d) = "0" THEN DropZeros(Tail(d)) ELSE d
NumberOf(f) == DropZeros(IF AllDigits(f) THEN f ELSE SubSeq(f, 1, Len(f) - 2))

\* An uploaded file: readable is FALSE for bytes that are not text (read_csv
\* raises UnicodeDecodeError); a readable file with no line at all has an empty
\* header (read_csv raises EmptyDataError).  rows are the data lines, each one
\* field per column.
CsvFile(h, r) == [kind |-> "file", readable |-> TRUE, header |-> h, rows |-> r]
BinaryFile == [kind |-> "file", readable |-> FALSE, header |-> <<>>, rows |-> <<>>]
EmptyFile == CsvFile(<<>>, <<>>)

\* pd.read_csv raises on this file
read_csv_raises(file) == ~file.readable \/ file.header = <<>>

\* The dtype pd.read_csv infers for column j: a column with no row is object;
\* a column whose fields are all numbers or missing is int64, or float64 when
\* one is missing; any other column is object
infer_dtype(rows, j) ==
    IF rows = <<>> THEN "object"
    ELSE IF \E i \in 1..Len(rows) : rows[i][j] \notin NAValues /\ ~IsNumeric(rows[i][j])
        THEN "object"
    ELSE IF \E i \in 1..Len(rows) : rows[i][j] \in NAValues THEN "float64"
    ELSE "int64"

parse_cell(f, dtype) ==
    IF f \in NAValues THEN NaN
    ELSE IF dtype = "object" THEN Str(f)
    ELSE Num(NumberOf(f))

\* pd.read_csv(uploaded_file), line 31, for a file it does not raise on
read_csv(file) ==
    LET n  == Len(file.header)
        dt == AsSeq([j \in 1..n |-> infer_dtype(file.rows, j)])
    IN  [columns |-> file.header,
         dtypes  |-> dt,
         data    |-> AsSeq([i \in 1..Len(file.rows) |->
                        AsSeq([j \in 1..n |-> parse_cell(file.rows[i][j], dt[j])])])]

\* One cell as to_csv writes it: a missing value as the empty field, a
\* number of a float64 column with its ".0"
format_cell(c, dtype) ==
    IF c.kind = "nan" THEN <<>>
    ELSE IF c.kind = "num" /\ dtype = "float64" THEN c.val \o <<".", "0">>
    ELSE c.val

\* filtered_df.to_csv(index=False), line 141
to_csv(d) ==
    CsvFile(d.columns,
            AsSeq([i \in 1..Len(d.data) |->
                AsSeq([j \in 1..Len(d.columns) |->
                    format_cell(d.data[i][j], d.dtypes[j])])]))

(***************************************************************************)
(* The script, lines 30-144, as operators on the table                     *)
(***************************************************************************)
\* df.select_dtypes(include=["object"]).columns, line 36: the positions of
\* the object columns, in column order
text_cols(d) == SelectSeq(AsSeq([j \in 1..Len(d.columns) |-> j]),
                          LAMBDA j : d.dtypes[j] = "object")

\* As no_text_columns, testing df.columns instead of text_cols
no_columns(d) == Len(d.columns) = 0

\* line 37
no_text_columns(d) == Len(text_cols(d)) = 0

\* .astype(str) of one cell of an object column, and str(text)
astype_str(c) == IF c.kind = "nan" THEN <<"n","a","n">> ELSE c.val

\* " ".join
RECURSIVE join(_)
join(parts) ==
    IF parts = <<>> THEN <<>>
    ELSE IF Len(parts) = 1 THEN parts[1]
    ELSE parts[1] \o <<" ">> \o join(Tail(parts))

\* df[name] = values: replaces the column of that name, or appends it
ColumnIndex(d, name) ==
    IF \E j \in 1..Len(d.columns) : d.columns[j] = name
        THEN CHOOSE j \in 1..Len(d.columns) : d.columns[j] = name
    ELSE 0

set_column(d, name, values) ==
    LET k == ColumnIndex(d, name) IN
    IF k = 0
        THEN [columns |-> Append(d.columns, name),
              dtypes  |-> Append(d.dtypes, "object"),
              data    |-> AsSeq([i \in 1..Len(d.data) |-> Append(d.data[i], values[i])])]
    ELSE [columns |-> d.columns,
          dtypes  |-> [d.dtypes EXCEPT ![k] = "object"],
          data    |-> AsSeq([i \in 1..Len(d.data) |->
                            [d.data[i] EXCEPT ![k] = values[i]]])]

column(d, name) == AsSeq([i \in 1..Len(d.data) |-> d.data[i][ColumnIndex(d, name)]])

\* line 42
add_combined_text(d) ==
    LET tc == text_cols(d) IN
    set_column(d, "Combined_Text",
        AsSeq([i \in 1..Len(d.data) |->
            Str(join(AsSeq([k \in 1..Len(tc) |-> astype_str(d.data[i][tc[k]])])))]))

\* line 56
add_cleaned_text(d) ==
    LET src == column(d, "Combined_Text") IN
    set_column(d, "Cleaned_Text",
        AsSeq([i \in 1..Len(d.data) |-> Str(clean_text(astype_str(src[i])))]))

\* line 70
add_sentiment(d) ==
    LET src == column(d, "Cleaned_Text") IN
    set_column(d, "Sentiment",
        AsSeq([i \in 1..Len(d.data) |-> Str(get_sentiment(astype_str(src[i])))]))

\* df[df["Sentiment"] == label], lines 76-78 and 133: the rows are kept in
\* their order, the columns and dtypes are those of df
rows_with(d, label) ==
    [d EXCEPT !.data = SelectSeq(d.data,
        LAMBDA r : r[ColumnIndex(d, "Sentiment")] = Str(label))]

count_label(d, label) == Len(rows_with(d, label).data)

\* round(n / total * 100, 1), lines 90-92, in tenths of a percent
\* (round half to even); total > 0
percent(n, total) ==
    LET q == (n * 1000) \div total
        r == (n * 1000) % total
    IN  IF 2 * r > total THEN q + 1
        ELSE IF 2 * r < total THEN q
        ELSE IF q % 2 = 0 THEN q ELSE q + 1

\* df["Sentiment"].value_counts(), lines 102, 111, 120: the labels that
\* occur, by decreasing count; labels of equal count in the order of their
\* first occurrence
LabelOrder == <<Positive, Neutral, Negative>>

FirstRow(d, label) ==
    LET k == ColumnIndex(d, "Sentiment") IN
    IF \E i \in 1..Len(d.data) : d.data[i][k] = Str(label)
        THEN CHOOSE i \in 1..Len(d.data) :
                /\ d.data[i][k] = Str(label)
                /\ \A h \in 1..(i - 1) : d.data[h][k] # Str(label)
    ELSE 0

ranked(count, first) ==
    LET present == {k \in 1..3 : count[k] > 0}
        Before(a, b) == \/ count[a] > count[b]
                        \/ count[a] = count[b] /\ first[a] < first[b]
        rank(k) == 1 + Cardinality({m \in present : Before(m, k)})
    IN  AsSeq([r \in 1..Cardinality(present) |->
            LET k == CHOOSE x \in present : rank(x) = r
            IN  [label |-> LabelOrder[k], count |-> count[k]]])

value_counts(d) ==
    Only({ ranked(n[1], n[2]) :
           n \in {<<AsSeq([k \in 1..3 |-> count_label(d, LabelOrder[k])]),
                    AsSeq([k \in 1..3 |-> FirstRow(d, LabelOrder[k])])>>} })

\* plot(kind="bar", color=[...]) and plot(kind="pie", colors=[...]), lines
\* 102 and 111-113: the k-th bar or slice takes the k-th colour of the list
ColorList == <<"green", "grey", "red">>
plot_colors(counts) ==
    AsSeq([k \in 1..Len(counts) |->
        [label |-> counts[k].label, color |-> ColorList[k]]])

\* As filter, without the "All" branch
filter_without_all(d, choice) == rows_with(d, choice)

\* lines 132-135
filter(d, choice) == IF choice # All THEN rows_with(d, choice) ELSE d

(***************************************************************************)
(* One run of the script.  Streamlit runs the whole script, top to bottom, *)
(* on every interaction; nothing of a run survives but the widget values.  *)
(* An uncaught exception ends the run and is shown on the page; st.stop()  *)
(* ends the run; neither ends the process.                                 *)
(***************************************************************************)
NoMetrics == [computed |-> FALSE, total |-> 0, pos |-> 0, neg |-> 0, neu |-> 0,
              cards |-> <<>>]
NoCharts  == [drawn |-> FALSE, bar |-> <<>>, pie |-> <<>>, line |-> <<>>]

Page(st, err, d, m, ch, fd, data, choice) ==
    [status |-> st, shown_error |-> err, df |-> d, metrics |-> m, charts |-> ch,
     filtered_df |-> fd, csv |-> data, sentiment_choice |-> choice]

\* A widget that a run does not reach loses its value: the selectbox is back
\* at its first option, "All", the next time it is drawn.
Halted(st, err, d, m) == Page(st, err, d, m, NoCharts, NoTable, NoFile, All)

\* The values of lines 75-78 and the first ncards st.metric calls of lines
\* 89-92 (the run that line 90 ends has made one)
metric_cards(total, pos, neg, neu, ncards) ==
    LET all   == <<[label |-> "Total Rows", value |-> total, delta |-> -1],
                   [label |-> "Positive", value |-> pos,
                    delta |-> IF total = 0 THEN -1 ELSE percent(pos, total)],
                   [label |-> "Neutral", value |-> neu,
                    delta |-> IF total = 0 THEN -1 ELSE percent(neu, total)],
                   [label |-> "Negative", value |-> neg,
                    delta |-> IF total = 0 THEN -1 ELSE percent(neg, total)]>>
    IN  [computed |-> TRUE, total |-> total, pos |-> pos, neg |-> neg, neu |-> neu,
         cards |-> SubSeq(all, 1, ncards)]

compute_metrics(d, ncards) ==
    Only({ metric_cards(n[1], n[2], n[3], n[4], ncards) :
           n \in {<<Len(d.data),                       \* line 75
                    count_label(d, Positive),           \* line 76
                    count_label(d, Negative),           \* line 77
                    count_label(d, Neutral)>>} })       \* line 78

\* lines 99-125
draw_charts(d) ==
    Only({ [drawn |-> TRUE,
            bar   |-> plot_colors(counts),
            pie   |-> plot_colors(counts),
            line  |-> counts] : counts \in {value_counts(d)} })

\* pos/total of line 90 raises ZeroDivisionError
division_raises(total) == total = 0

\* Line 42 on a table with no row and more than one text column:
\* DataFrame.agg gives back either an empty Series, which is assigned, or an
\* empty DataFrame of several columns, whose assignment to the one column
\* raises ValueError.  Which one depends on the installed pandas.
agg_may_raise(d) == d.data = <<>> /\ Len(text_cols(d)) > 1

\* The outcomes of line 42 on a file: FALSE it passes, TRUE it raises
agg_outcomes(file) ==
    IF file # NoFile /\ ~read_csv_raises(file) /\ agg_may_raise(read_csv(file))
        THEN BOOLEAN ELSE {FALSE}

\* Lines 75-144 on the classified table d
render(d, choice) ==
    IF division_raises(Len(d.data))                                     \* line 90
        THEN Halted("exception", "ZeroDivisionError", d, compute_metrics(d, 1))
    ELSE Only({ Page("rendered", "none", d, compute_metrics(d, 4), draw_charts(d),
                     fd, to_csv(fd), choice) : fd \in {filter(d, choice)} })

\* Lines 36-144 on the loaded table
process(loaded, choice, agg_raises) ==
    IF no_text_columns(loaded)                                          \* lines 37-39
        THEN Halted("stopped", "No text columns found in your CSV.", loaded, NoMetrics)
    ELSE IF agg_may_raise(loaded) /\ agg_raises
        THEN Halted("exception", "ValueError", loaded, NoMetrics)       \* line 42
    ELSE Only({ render(d, choice) :
                d \in {add_sentiment(add_cleaned_text(add_combined_text(loaded)))} })

\* Lines 30-144
Run(file, choice, agg_raises) ==
    IF file = NoFile
        THEN Halted("no_file", "none", NoTable, NoMetrics)              \* line 30
    ELSE IF read_csv_raises(file)                                       \* line 31
        THEN Halted("exception",
                    IF file.readable THEN "EmptyDataError" ELSE "UnicodeDecodeError",
                    NoTable, NoMetrics)
    ELSE Only({ process(loaded, choice, agg_raises) : loaded \in {read_csv(file)} })

(***************************************************************************)
(* The files a user uploads                                                *)
(***************************************************************************)
Header == <<"review", "source">>

Fields == { <<>>, <<"7">>, <<"G","r","e","a","t","!">>, <<"b","a","d">> }

RECURSIVE RowSeqs(_)
RowSeqs(n) ==
    IF n = 0 THEN {<<>>}
    ELSE LET shorter == RowSeqs(n - 1)
         IN  shorter \cup
             {Append(r, row) : r \in {x \in shorter : Len(x) = n - 1},
                               row \in [1..Len(Header) -> Fields]}

Files == {BinaryFile, EmptyFile} \cup {CsvFile(Header, r) : r \in RowSeqs(MaxRows)}

Choices == {All, Positive, Neutral, Negative}      \* line 130

(***************************************************************************)
(* Spec: the page and the user's interactions                              *)
(***************************************************************************)
Init ==
    /\ Combined_Text = <<>> /\ Cleaned_Text = <<>> /\ Sentiment = <<>>
    /\ applied = "none"
    /\ uploaded_file = NoFile
    /\ page = Run(NoFile, All, FALSE)

\* The user puts a file into the empty uploader (line 28); the script runs.
\* Replacing a file in one gesture keeps the selectbox's value: it leads to
\* the state that RemoveFile, Upload and SelectSentiment lead to.
Upload(file) ==
    /\ uploaded_file = NoFile
    /\ uploaded_file' = file
    /\ \E agg_raises \in agg_outcomes(file) :
            page' = Run(file, page.sentiment_choice, agg_raises)
    /\ UNCHANGED textvars

\* The user removes the file from the uploader; the script runs
RemoveFile ==
    /\ uploaded_file # NoFile
    /\ uploaded_file' = NoFile
    /\ page' = Run(NoFile, page.sentiment_choice, FALSE)
    /\ UNCHANGED textvars

\* The user picks an option of the selectbox (line 130), which is on the
\* page only when the last run reached it; the script runs
SelectSentiment(choice) ==
    /\ page.status = "rendered"
    /\ \E agg_raises \in agg_outcomes(uploaded_file) :
            page' = Run(uploaded_file, choice, agg_raises)
    /\ UNCHANGED <<uploaded_file, textvars>>

\* The user clicks the download button (lines 139-144): the browser saves
\* the button's data, page.csv, and the script runs
Download ==
    /\ page.status = "rendered"
    /\ \E agg_raises \in agg_outcomes(uploaded_file) :
            page' = Run(uploaded_file, page.sentiment_choice, agg_raises)
    /\ UNCHANGED <<uploaded_file, textvars>>

Next ==
    \/ \E file \in Files : Upload(file)
    \/ RemoveFile
    \/ \E choice \in Choices : SelectSentiment(choice)
    \/ Download

Spec == Init /\ [][Next]_vars

(***************************************************************************)
(* SpecText: one text through clean_text, then get_sentiment               *)
(***************************************************************************)
InitText ==
    /\ Combined_Text \in Texts
    /\ Cleaned_Text = <<>> /\ Sentiment = <<>>
    /\ applied = "none"
    /\ uploaded_file = NoFile
    /\ page = Run(NoFile, All, FALSE)

\* line 56 for one row
CleanText ==
    /\ applied = "none"
    /\ Cleaned_Text' = clean_text(Combined_Text)
    /\ applied' = "clean_text"
    /\ UNCHANGED <<Combined_Text, Sentiment, appvars>>

\* line 70 for one row
GetSentiment ==
    /\ applied = "clean_text"
    /\ Sentiment' = get_sentiment(Cleaned_Text)
    /\ applied' = "get_sentiment"
    /\ UNCHANGED <<Combined_Text, Cleaned_Text, appvars>>

NextText == CleanText \/ GetSentiment

SpecText == InitText /\ [][NextText]_vars

(***************************************************************************)
(* Properties of clean_text and get_sentiment, checked under SpecText      *)
(***************************************************************************)
\* Only a-z and single spaces, no space at either end
WellFormed(t) ==
    /\ \A i \in 1..Len(t) : t[i] \in Lowercase \cup {" "}
    /\ \A i \in 1..(Len(t) - 1) : ~(t[i] = " " /\ t[i + 1] = " ")
    /\ t # <<>> => (t[1] # " " /\ t[Len(t)] # " ")

\* C1: whatever the text (digits, punctuation, non-ASCII letters, tabs, the
\* "nan" of a missing cell), the value clean_text returns holds only the
\* letters a-z and single spaces, with no space at either end.
C1_CleanedTextWellFormed == applied # "none" => WellFormed(Cleaned_Text)

\* A text with a tab, a capital and a character that is dropped, cleaned to
\* words separated by one space
C1_Witness ==
    /\ applied = "clean_text"
    /\ \E i \in 1..Len(Combined_Text) : Combined_Text[i] = "\t"
    /\ \E i \in 1..Len(Combined_Text) : Combined_Text[i] \in Uppercase
    /\ \E i \in 1..Len(Cleaned_Text) : Cleaned_Text[i] = " "

\* C2 as stated: the example text is cleaned to "check this out great" (the
\* word of the hashtag kept), and a row with that cleaned text and a positive
\* score is labelled Positive.
C2_ExampleKeepsHashtagWord ==
    /\ (applied # "none" /\ Combined_Text = ExampleText)
            => Cleaned_Text = ExampleWithHashtagWord
    /\ (applied = "get_sentiment" /\ Cleaned_Text = ExampleWithHashtagWord
            /\ polarity(Cleaned_Text) > 0)
            => Sentiment = Positive

\* C2 amended: the example text is cleaned to "check this out": the URL, the
\* mention and the whole hashtag, its word included, are removed; a row whose
\* cleaned text has a positive score is labelled Positive.
C2_ExampleDropsHashtag ==
    /\ (applied # "none" /\ Combined_Text = ExampleText)
            => Cleaned_Text = ExampleCleaned
    /\ (applied = "get_sentiment" /\ polarity(Cleaned_Text) > 0)
            => Sentiment = Positive

C2_Witness ==
    /\ applied = "get_sentiment"
    /\ Combined_Text = ExampleText
    /\ Cleaned_Text = ExampleCleaned

\* The normalisation in the order section 4.2 of the specification gives:
\* URLs, mentions, hashtags, then lower-casing, then the rest
spec_order_clean_text(text) ==
    LET t1 == sub_links(text)
        t2 == sub_mentions(t1)
        t3 == sub_hashtags(t2)
        t4 == lower(t3)
        t5 == sub_nonletters(t4)
    IN  strip(sub_spaces(t5))

\* C9 as stated: for every text, clean_text gives what the steps give in the
\* specification's order; where the text is lower-cased makes no difference.
C9_OrderMakesNoDifference ==
    applied # "none" => Cleaned_Text = spec_order_clean_text(Combined_Text)

\* C9 amended: for every text that lower-casing leaves unchanged, clean_text
\* gives what the steps give in the specification's order.
C9_SameOnLowerCaseTexts ==
    (applied # "none" /\ lower(Combined_Text) = Combined_Text)
        => Cleaned_Text = spec_order_clean_text(Combined_Text)

\* A lower-case text with a link in it and a letter left after cleaning
C9_Witness ==
    /\ applied = "clean_text"
    /\ lower(Combined_Text) = Combined_Text
    /\ \E i \in 1..Len(Combined_Text) : MatchLink(Combined_Text, i) > 0
    /\ Cleaned_Text # <<>>

(***************************************************************************)
(* Properties of the script, checked under Spec                            *)
(***************************************************************************)
HasColumn(d, name) == ColumnIndex(d, name) # 0
CellText(d, i, name) == d.data[i][ColumnIndex(d, name)].val

\* C3: every row has one label of the three, the one the sign of the score
\* of its Cleaned_Text gives, zero being Neutral; rows with the same
\* Cleaned_Text have the same label, whatever their other columns hold.
C3_LabelIsSignOfPolarity ==
    HasColumn(page.df, "Sentiment") =>
        LET d == page.df
            n == Len(d.data)
        IN  /\ \A i \in 1..n :
                LET score == polarity(CellText(d, i, "Cleaned_Text"))
                    label == CellText(d, i, "Sentiment")
                IN  /\ d.data[i][ColumnIndex(d, "Sentiment")].kind = "str"
                    /\ label \in Labels
                    /\ score > 0 <=> label = Positive
                    /\ score < 0 <=> label = Negative
                    /\ score = 0 <=> label = Neutral
            /\ \A i, j \in 1..n :
                CellText(d, i, "Cleaned_Text") = CellText(d, j, "Cleaned_Text")
                    => CellText(d, i, "Sentiment") = CellText(d, j, "Sentiment")

\* Two rows that differ in their columns and agree in Cleaned_Text, and a
\* row of score zero
C3_Witness ==
    /\ page.status = "rendered"
    /\ \E i, j \in 1..Len(page.df.data) :
        /\ page.df.data[i] # page.df.data[j]
        /\ CellText(page.df, i, "Combined_Text") # CellText(page.df, j, "Combined_Text")
        /\ CellText(page.df, i, "Cleaned_Text") = CellText(page.df, j, "Cleaned_Text")
        /\ CellText(page.df, i, "Sentiment") = Positive

\* C4: the three counts add up to total, the number of rows of the table.
C4_CountsSumToTotal ==
    page.metrics.computed =>
        /\ page.metrics.pos + page.metrics.neu + page.metrics.neg = page.metrics.total
        /\ page.metrics.total = Len(page.df.data)
        /\ page.metrics.total = Len(uploaded_file.rows)

\* A table of two rows in which one label occurs and two do not
C4_Witness ==
    /\ page.status = "rendered"
    /\ page.metrics.total = 2
    /\ page.metrics.neg = 2

\* The rows of d, in their order, whose Sentiment is the label
Matching(d, label) ==
    {i \in 1..Len(d.data) : CellText(d, i, "Sentiment") = label}
NthOf(S, k) == CHOOSE i \in S : Cardinality({j \in S : j < i}) = k - 1

FilterExact ==
    page.status = "rendered" =>
        LET d == page.df
            f == page.filtered_df
            c == page.sentiment_choice
        IN  /\ f.columns = d.columns
            /\ c = All => f.data = d.data
            /\ c # All =>
                /\ Len(f.data) = Cardinality(Matching(d, c))
                /\ \A k \in 1..Len(f.data) : f.data[k] = d.data[NthOf(Matching(d, c), k)]

\* C5: the filtered table holds exactly the rows of the chosen label, in
\* their order and unchanged, and every row for All; choosing a filter leaves
\* the table as it was.
C5_FilterExactAndReadOnly ==
    /\ []FilterExact
    /\ [][(uploaded_file' = uploaded_file /\ page.status = "rendered")
            => page'.df = page.df]_vars

\* Positive chosen on a table with a Positive row and another row
C5_Witness ==
    /\ page.status = "rendered"
    /\ page.sentiment_choice = Positive
    /\ Len(page.filtered_df.data) = 1
    /\ Len(page.df.data) = 2

\* C6: loading the exported file again gives the filtered table back, cell
\* by cell, the empty Cleaned_Text and the missing cells included.
C6_ExportRoundTrip ==
    page.status = "rendered" =>
        /\ read_csv(page.csv).columns = page.filtered_df.columns
        /\ read_csv(page.csv).data = page.filtered_df.data

\* The two failure conditions of an upload
NoStringColumn(file) ==
    \A j \in 1..Len(file.header) : read_csv(file).dtypes[j] # "object"
UploadFails(file) ==
    file # NoFile /\ (read_csv_raises(file) \/ NoStringColumn(file))

NothingDerived ==
    /\ ~HasColumn(page.df, "Combined_Text")
    /\ ~HasColumn(page.df, "Cleaned_Text")
    /\ ~HasColumn(page.df, "Sentiment")
    /\ ~page.metrics.computed /\ page.metrics.cards = <<>>
    /\ ~page.charts.drawn
    /\ page.filtered_df = NoTable
    /\ page.csv = NoFile

HaltsOnFailure ==
    UploadFails(uploaded_file) =>
        /\ page.status \in {"exception", "stopped"}
        /\ page.shown_error # "none"
        /\ NothingDerived
        /\ (~read_csv_raises(uploaded_file) => page.status = "stopped")

\* C7: on either failure an error is shown and the run halts with nothing
\* derived, drawn or offered for export; the uploader stays usable, and a
\* file that has a string column and a row is then rendered in full.
C7_FailureHaltsTheRun ==
    /\ []HaltsOnFailure
    /\ [][(uploaded_file' # uploaded_file /\ uploaded_file' # NoFile
            /\ ~UploadFails(uploaded_file') /\ uploaded_file'.rows # <<>>)
            => (page'.status = "rendered" /\ page'.shown_error = "none"
                /\ Len(page'.df.data) = Len(uploaded_file'.rows)
                /\ HasColumn(page'.df, "Sentiment"))]_vars

\* A table with rows and no string column: the run stopped with the message
C7_Witness ==
    /\ uploaded_file # NoFile
    /\ ~read_csv_raises(uploaded_file)
    /\ uploaded_file.rows # <<>>
    /\ NoStringColumn(uploaded_file)
    /\ page.status = "stopped"

\* The colour the specification gives each label
FixedColor(label) ==
    IF label = Positive THEN "green" ELSE IF label = Neutral THEN "grey" ELSE "red"

\* C8: in the bar chart and in the pie chart Positive is green, Neutral grey
\* and Negative red, whatever the counts.
C8_FixedColorPerLabel ==
    page.charts.drawn =>
        /\ \A k \in 1..Len(page.charts.bar) :
            page.charts.bar[k].color = FixedColor(page.charts.bar[k].label)
        /\ \A k \in 1..Len(page.charts.pie) :
            page.charts.pie[k].color = FixedColor(page.charts.pie[k].label)

\* C10: an upload that parses and has a string column runs to the end
\* without an error, and total is positive where the percentages are taken.
C10_NoErrorAfterLoaderChecks ==
    (uploaded_file # NoFile /\ ~UploadFails(uploaded_file)) =>
        /\ page.status = "rendered"
        /\ page.shown_error = "none"
        /\ page.metrics.computed /\ page.metrics.total > 0

====
